---- MODULE Spec2Model ----
(***************************************************************************)
(* Model of models/random-forest/train_model.py: the synthetic-data        *)
(* generator with its labelling rule, and the train-and-export script as   *)
(* a sequential process over a small file system.                          *)
(***************************************************************************)
EXTENDS Integers, Sequences, FiniteSets

VARIABLES
    pc,             \* position of the script
    run,            \* number of the current script run (a fresh process each)
    dirs,           \* directory name -> "absent" | "dir" | "file"
    at_start,       \* [dirs, rng, files] as the current run found them
    files,          \* output path -> [kind, run, payload]
    stdout,         \* messages printed by the current run
    uncaught,       \* TRUE when an exception left the script uncaught
    steps,          \* pipeline steps completed by the current run, in order
    rng,            \* state of the global numpy generator
    X, y,           \* feature table and labels
    n_test, n_train, test_idx,
    model, accuracy,
    importance_dict, onnx_model, trees_data,
    results,        \* run -> what the run generated and measured
    call, sample, score, label   \* the pure-function specifications

vars == << pc, run, dirs, at_start, files, stdout, uncaught, steps, rng,
           X, y, n_test, n_train, test_idx, model, accuracy,
           importance_dict, onnx_model, trees_data, results,
           call, sample, score, label >>

----------------------------------------------------------------------------
(* Bounds *)
MaxRuns == 2      \* script runs in a row
MaxKey == 1       \* generator states a process may start in
MaxCtr == 2       \* draws made before a call of generate_synthetic_data
MaxCount == 12    \* explicit sample counts 1..MaxCount

(* Program constants *)
DefaultNSamples == 1000
PipelineNSamples == 2000
Seed == 42
SplitRandomState == 42
ModelRandomState == 42
NEstimators == 100
TreesExported == 5
TestPercent == 20

Features == << "timeSpent", "scrollCount", "scrollDepth",
               "clickCount", "tabSwitches", "videoWatchTime" >>

None == "None"

\* states the global generator of a fresh process may be in
FreshRng == [ key : (Seed - 1)..(Seed - 1 + MaxKey), ctr : {0} ]
\* states it may be in when generate_synthetic_data is called
RngStates == [ key : (Seed - 1)..(Seed - 1 + MaxKey), ctr : 0..MaxCtr ]
\* the ways generate_synthetic_data is called: without a count, or with one
NoCount == [given |-> FALSE, n |-> 0]
Count(k) == [given |-> TRUE, n |-> k]
Calls == {NoCount} \cup { Count(k) : k \in 1..MaxCount \cup {PipelineNSamples} }

----------------------------------------------------------------------------
(* IEEE-754 binary64 arithmetic on the values the distraction score takes. *)
(* A double x in [0, 2) is the record [n, d] with                          *)
(*     x = (n * 2^56 + d) / (100 * 2^56),                                  *)
(* n the value in hundredths and d the representation error.               *)

F(n, d) == [n |-> n, d |-> d]
FZero == F(0, 0)
W_timeSpent      == F(30, -80)   \* 0.3
W_scrollCount    == F(20, 80)    \* 0.2
W_scrollDepth    == F(15, -40)   \* 0.15
W_clickCount     == F(10, 40)    \* 0.1
W_tabSwitches    == F(15, -40)   \* 0.15
W_videoWatchTime == F(10, 40)    \* 0.1
Threshold        == F(40, 160)   \* 0.4

RECURSIVE Pow2Mod(_, _)
Pow2Mod(e, m) ==
    IF e = 0 THEN 1 % m
    ELSE LET h == Pow2Mod(e \div 2, m)
         IN  IF e % 2 = 0 THEN (h * h) % m ELSE (2 * h * h) % m

RECURSIVE Pow2(_)
Pow2(e) == IF e = 0 THEN 1 ELSE 2 * Pow2(e - 1)

\* the exact value (n, d) is below b hundredths
FBelow(n, d, b) == n < b \/ (n = b /\ d < 0)

\* binade of the exact value: ulp = 2^(k - 56)
FBinade(n, d) ==
    IF n <= 12 THEN 0
    ELSE IF FBelow(n, d, 25) THEN 1
    ELSE IF FBelow(n, d, 50) THEN 2
    ELSE IF FBelow(n, d, 100) THEN 3
    ELSE 4

\* round-to-nearest, ties-to-even, of the exact value (n, d)
FRound(n, d) ==
    LET k  == FBinade(n, d)
        M  == 100 * Pow2(k)
        b1 == Pow2(k) * (((n % 100) * Pow2Mod(56 - k, 100)) % 100)
        b2 == Pow2(k) * (((n % 200) * Pow2Mod(56 - k, 200)) % 200)
        R  == (b1 + d + 16 * M) % M
        R2 == (b2 + d + 16 * M) % (2 * M)
        down == F(n, d - R)
        up   == F(n, d + M - R)
    IN  IF 2 * R < M THEN down
        ELSE IF 2 * R > M THEN up
        ELSE IF R2 < M THEN down ELSE up

FAdd(a, b) == FRound(a.n + b.n, a.d + b.d)
FMulBool(b, w) == IF b THEN w ELSE FZero
FGt(a, b) == a.n > b.n \/ (a.n = b.n /\ a.d > b.d)

----------------------------------------------------------------------------
(* generate_synthetic_data *)

\* scrollDepth is held in hundredths
distraction_score(s) ==
    FAdd(FAdd(FAdd(FAdd(FAdd(
        FMulBool(s.timeSpent > 600, W_timeSpent),
        FMulBool(s.scrollCount > 50, W_scrollCount)),
        FMulBool(s.scrollDepth > 80, W_scrollDepth)),
        FMulBool(s.clickCount < 2, W_clickCount)),
        FMulBool(s.tabSwitches > 5, W_tabSwitches)),
        FMulBool(s.videoWatchTime > 300, W_videoWatchTime))

label_of_ge(sc) == IF FGt(sc, Threshold) \/ sc = Threshold THEN 1 ELSE 0
label_of(sc) == IF FGt(sc, Threshold) THEN 1 ELSE 0

\* values a feature takes in the model, on both sides of its threshold
FeatureValues ==
    [ timeSpent      |-> << 30, 600, 601 >>,
      scrollCount    |-> << 4, 50, 51 >>,
      scrollDepth    |-> << 50, 80, 81 >>,
      clickCount     |-> << 1, 2, 3 >>,
      tabSwitches    |-> << 2, 5, 6 >>,
      videoWatchTime |-> << 100, 300, 301 >> ]

Samples == [ timeSpent : {30, 600, 601}, scrollCount : {4, 50, 51},
             scrollDepth : {50, 80, 81}, clickCount : {1, 2, 3},
             tabSwitches : {2, 5, 6}, videoWatchTime : {100, 300, 301} ]

\* numpy's generator, as a deterministic function of its state [key, ctr]:
\* the k-th draw after the state picks one of a feature's three values
Mix(key, ctr) == (key * 131 + ctr * 37 + (ctr \div 7) * 11 + (ctr \div 3)) % 9973
Draw(g, k) == (Mix(g.key, g.ctr + k) % 3) + 1
seeded_noreseed(g, s) == g
seeded(g, s) == [key |-> s, ctr |-> 0]

\* columns are drawn one after the other, n values each
generate_table(g, n) ==
    [ i \in 1..n |->
        [ timeSpent      |-> FeatureValues.timeSpent[Draw(g, i - 1)],
          scrollCount    |-> FeatureValues.scrollCount[Draw(g, n + i - 1)],
          scrollDepth    |-> FeatureValues.scrollDepth[Draw(g, 2 * n + i - 1)],
          clickCount     |-> FeatureValues.clickCount[Draw(g, 3 * n + i - 1)],
          tabSwitches    |-> FeatureValues.tabSwitches[Draw(g, 4 * n + i - 1)],
          videoWatchTime |-> FeatureValues.videoWatchTime[Draw(g, 5 * n + i - 1)] ] ]

\* def generate_synthetic_data(n_samples=1000)
n_samples_of_2000(c) == IF c.given THEN c.n ELSE PipelineNSamples
n_samples_of(c) == IF c.given THEN c.n ELSE DefaultNSamples

\* result of generate_synthetic_data(c) called with the global generator g
generate_synthetic_data(g, c) ==
    LET n  == n_samples_of(c)
        g1 == seeded(g, Seed)
        df == generate_table(g1, n)
    IN  [ df  |-> df,
          y   |-> [ i \in 1..n |-> label_of(distraction_score(df[i])) ],
          rng |-> [ key |-> g1.key, ctr |-> g1.ctr + 6 * n ] ]

----------------------------------------------------------------------------
(* train_test_split(X, y, test_size=0.2, random_state=42) *)

\* ceil(test_size * n): 0.2 * n is exact in binary64 when 5 divides n
test_size_swapped(n) == n - ((n * TestPercent + 99) \div 100)
test_size_of(n) == (n * TestPercent + 99) \div 100
split_fails(n) == n - test_size_of(n) = 0

\* the shuffle of 1..n under a given random_state, a permutation that
\* depends on n and random_state only; the first n_test places are the test set
Perm(n, rs, i) == ((i - 1 + rs) % n) + 1
test_indices(n, rs) == { Perm(n, rs, i) : i \in 1..test_size_of(n) }

\* round(0.2 * n), as the spec states the expected size
RoundFifth(n) == (2 * n + 5) \div 10
Abs(a) == IF a < 0 THEN -a ELSE a

----------------------------------------------------------------------------
(* RandomForestClassifier(...).fit, predict, accuracy_score *)

Indicator(s) ==
    << s.timeSpent > 600, s.scrollCount > 50, s.scrollDepth > 80,
       s.clickCount < 2, s.tabSwitches > 5, s.videoWatchTime > 300 >>

\* the fitted ensemble, as far as the script uses it: a function of the
\* training rows and of random_state only
fit(df, lab, train, rs) ==
    LET ones == Cardinality({ i \in train : lab[i] = 1 })
    IN  [ majority |-> IF 2 * ones > Cardinality(train) THEN 1 ELSE 0,
          random_state |-> rs,
          n_estimators |-> NEstimators,
          feature_importances_ |->
              [ c \in 1..Len(Features) |->
                  Cardinality({ i \in train : Indicator(df[i])[c] /\ lab[i] = 1 }) ] ]

\* number of test rows predicted correctly
accuracy_score(m, lab, test) == Cardinality({ i \in test : lab[i] = m.majority })

----------------------------------------------------------------------------
(* The file system and the script's output *)

Dirs == {"onnx", "model_data"}
ImportanceFile == "model_data/feature_importance.json"
OnnxFile == "onnx/random_forest_model.onnx"
TreesFile == "model_data/trees_data.json"
Files == {ImportanceFile, OnnxFile, TreesFile}
Parent(f) == IF f = OnnxFile THEN "onnx" ELSE "model_data"

Absent == [kind |-> "absent", run |-> 0, payload |-> << >>]
\* a file left by an earlier use of the working directory
Stale == [kind |-> "complete", run |-> 0, payload |-> << >>]
\* open(path, 'w'): the file exists and is empty
Opened(r) == [kind |-> "partial", run |-> r, payload |-> << >>]
\* the payload is written and the file closed
Written(r, p) == [kind |-> "complete", run |-> r, payload |-> p]

\* os.makedirs(d, exist_ok=True) succeeds unless d is a regular file
makedirs_skip(ds, d) == ds
makedirs(ds, d) == [ds EXCEPT ![d] = "dir"]

\* the keys of a dict held as a sequence of <<key, value>> pairs
Keys(dict) == { dict[i][1] : i \in DOMAIN dict }
Range(seq) == { seq[i] : i \in DOMAIN seq }
Prefix(seq, k) == [ i \in 1..(IF k < Len(seq) THEN k ELSE Len(seq)) |-> seq[i] ]

\* the order of the pipeline's steps
Pipeline == << "generate", "split", "fit", "evaluate", "importance",
               "open_importance", "dump_importance", "convert",
               "open_onnx", "write_onnx", "extract_trees",
               "open_trees", "dump_trees" >>
TryBody == Range(Pipeline)
Outside == {"import", "mkdir_onnx", "mkdir_model_data"}

NoLocals ==
    /\ X = << >> /\ y = << >> /\ n_test = 0 /\ n_train = 0 /\ test_idx = {}
    /\ model = None /\ accuracy = 0
    /\ importance_dict = << >> /\ onnx_model = << >> /\ trees_data = << >>

pure == << call, sample, score, label >>
disk == << dirs, files >>
locals == << X, y, n_test, n_train, test_idx, model, accuracy,
             importance_dict, onnx_model, trees_data >>

----------------------------------------------------------------------------
(* The script *)

Init ==
    /\ pc = "import"
    /\ run = 1
    /\ dirs \in [Dirs -> {"absent", "dir", "file"}]
    /\ rng \in FreshRng
    /\ files \in { fs \in [Files -> {Absent, Stale}] :
                      \A f \in Files : fs[f] = Stale => dirs[Parent(f)] = "dir" }
    /\ at_start = [dirs |-> dirs, rng |-> rng, files |-> files]
    /\ stdout = << >>
    /\ uncaught = FALSE
    /\ steps = << >>
    /\ NoLocals
    /\ results = << >>
    /\ call = NoCount /\ sample = None /\ score = FZero /\ label = 0

\* lines 8-16: the imports succeed
Import ==
    /\ pc = "import"
    /\ pc' = "mkdir_onnx"
    /\ UNCHANGED << run, at_start, stdout, uncaught, steps, rng, results >>
    /\ UNCHANGED << disk, locals, pure >>

\* line 19
MkdirOnnx ==
    /\ pc = "mkdir_onnx"
    /\ dirs["onnx"] # "file"
    /\ dirs' = makedirs(dirs, "onnx")
    /\ pc' = "mkdir_model_data"
    /\ UNCHANGED << run, at_start, files, stdout, uncaught, steps, rng, results >>
    /\ UNCHANGED << locals, pure >>

\* line 20
MkdirModelData ==
    /\ pc = "mkdir_model_data"
    /\ dirs["model_data"] # "file"
    /\ dirs' = makedirs(dirs, "model_data")
    /\ pc' = "main"
    /\ UNCHANGED << run, at_start, files, stdout, uncaught, steps, rng, results >>
    /\ UNCHANGED << locals, pure >>

\* lines 8-20 run outside the try statement: an ImportError or an OSError
\* raised there ends the script with a traceback
Crash ==
    /\ pc \in Outside
    /\ pc' = "crashed"
    /\ uncaught' = TRUE
    /\ UNCHANGED << run, at_start, stdout, steps, rng, results >>
    /\ UNCHANGED << disk, locals, pure >>

\* lines 150-154: the banner, then the try statement is entered
Main ==
    /\ pc = "main"
    /\ stdout' = stdout \o << "banner" >>
    /\ pc' = "generate"
    /\ UNCHANGED << run, at_start, uncaught, steps, rng, results >>
    /\ UNCHANGED << disk, locals, pure >>

\* lines 73-74
Generate ==
    /\ pc = "generate"
    /\ LET r == generate_synthetic_data(rng, Count(PipelineNSamples))
       IN  /\ X' = r.df
           /\ y' = r.y
           /\ rng' = r.rng
    /\ stdout' = stdout \o << "generating" >>
    /\ steps' = Append(steps, "generate")
    /\ pc' = "split"
    /\ UNCHANGED << run, at_start, uncaught, results, disk, pure >>
    /\ UNCHANGED << n_test, n_train, test_idx, model, accuracy,
                    importance_dict, onnx_model, trees_data >>

\* lines 77-80
Split ==
    /\ pc = "split"
    /\ ~split_fails(Len(X))
    /\ n_test' = test_size_of(Len(X))
    /\ n_train' = Len(X) - test_size_of(Len(X))
    /\ test_idx' = test_indices(Len(X), SplitRandomState)
    /\ stdout' = stdout \o << "shape", "distribution" >>
    /\ steps' = Append(steps, "split")
    /\ pc' = "fit"
    /\ UNCHANGED << run, at_start, uncaught, rng, results, disk, pure >>
    /\ UNCHANGED << X, y, model, accuracy, importance_dict, onnx_model, trees_data >>

\* lines 83-90
Fit ==
    /\ pc = "fit"
    /\ model' = fit(X, y, (1..Len(X)) \ test_idx, ModelRandomState)
    /\ stdout' = stdout \o << "training" >>
    /\ steps' = Append(steps, "fit")
    /\ pc' = "evaluate"
    /\ UNCHANGED << run, at_start, uncaught, rng, results, disk, pure >>
    /\ UNCHANGED << X, y, n_test, n_train, test_idx, accuracy,
                    importance_dict, onnx_model, trees_data >>

\* lines 93-99
Evaluate ==
    /\ pc = "evaluate"
    /\ accuracy' = accuracy_score(model, y, test_idx)
    /\ results' = [ r \in DOMAIN results \cup {run} |->
                      IF r = run
                      THEN [ rng_before |-> at_start.rng, X |-> X, y |-> y,
                             accuracy |-> accuracy_score(model, y, test_idx) ]
                      ELSE results[r] ]
    /\ stdout' = stdout \o << "accuracy", "report" >>
    /\ steps' = Append(steps, "evaluate")
    /\ pc' = "importance"
    /\ UNCHANGED << run, at_start, uncaught, rng, disk, pure >>
    /\ UNCHANGED << X, y, n_test, n_train, test_idx, model,
                    importance_dict, onnx_model, trees_data >>

\* the <<feature, importance>> pairs in column order
importances_of(m) == [ c \in 1..Len(Features) |-> << Features[c], m.feature_importances_[c] >> ]

\* lines 102-110, with the write of the importance file left out
Importance_skipwrite ==
    /\ pc = "importance"
    /\ importance_dict' = importances_of(model)
    /\ stdout' = stdout \o << "feature_importance" >>
    /\ steps' = Append(steps, "importance")
    /\ pc' = "convert"
    /\ UNCHANGED << run, at_start, uncaught, rng, results, disk, pure >>
    /\ UNCHANGED << X, y, n_test, n_train, test_idx, model, accuracy,
                    onnx_model, trees_data >>

\* lines 102-110
Importance ==
    /\ pc = "importance"
    /\ importance_dict' = importances_of(model)
    /\ stdout' = stdout \o << "feature_importance" >>
    /\ steps' = Append(steps, "importance")
    /\ pc' = "open_importance"
    /\ UNCHANGED << run, at_start, uncaught, rng, results, disk, pure >>
    /\ UNCHANGED << X, y, n_test, n_train, test_idx, model, accuracy,
                    onnx_model, trees_data >>

\* open(f, 'w') at step p, going to step q
Open(p, f, q) ==
    /\ pc = p
    /\ dirs[Parent(f)] = "dir"
    /\ files' = [files EXCEPT ![f] = Opened(run)]
    /\ steps' = Append(steps, p)
    /\ pc' = q
    /\ UNCHANGED << run, dirs, at_start, stdout, uncaught, rng, results >>
    /\ UNCHANGED << locals, pure >>

\* the write to the open file f and its close at step p, going to step q
Dump(p, f, payload, msgs, q) ==
    /\ pc = p
    /\ files' = [files EXCEPT ![f] = Written(run, payload)]
    /\ stdout' = stdout \o msgs
    /\ steps' = Append(steps, p)
    /\ pc' = q
    /\ UNCHANGED << run, dirs, at_start, uncaught, rng, results >>
    /\ UNCHANGED << locals, pure >>

\* line 113
OpenImportance == Open("open_importance", ImportanceFile, "dump_importance")
\* line 114
DumpImportance ==
    Dump("dump_importance", ImportanceFile, importance_dict, << >>, "convert")

\* lines 117-123
Convert ==
    /\ pc = "convert"
    /\ onnx_model' = << model >>
    /\ stdout' = stdout \o << "exporting" >>
    /\ steps' = Append(steps, "convert")
    /\ pc' = "open_onnx"
    /\ UNCHANGED << run, at_start, uncaught, rng, results, disk, pure >>
    /\ UNCHANGED << X, y, n_test, n_train, test_idx, model, accuracy,
                    importance_dict, trees_data >>

\* lines 126-127
OpenOnnx == Open("open_onnx", OnnxFile, "write_onnx")
\* lines 128-130
WriteOnnx == Dump("write_onnx", OnnxFile, onnx_model, << "saved" >>, "extract_trees")

\* model.estimators_[:5], one entry per tree
first_trees_four(m) ==
    [ i \in 1..(IF m.n_estimators < TreesExported - 1
                THEN m.n_estimators ELSE TreesExported - 1) |->
        [ treeIndex |-> i - 1, feature_names |-> Features ] ]
first_trees(m) ==
    [ i \in 1..(IF m.n_estimators < TreesExported
                THEN m.n_estimators ELSE TreesExported) |->
        [ treeIndex |-> i - 1, feature_names |-> Features ] ]

\* lines 133-142
ExtractTrees ==
    /\ pc = "extract_trees"
    /\ trees_data' = first_trees(model)
    /\ stdout' = stdout \o << "extracting" >>
    /\ steps' = Append(steps, "extract_trees")
    /\ pc' = "open_trees"
    /\ UNCHANGED << run, at_start, uncaught, rng, results, disk, pure >>
    /\ UNCHANGED << X, y, n_test, n_train, test_idx, model, accuracy,
                    importance_dict, onnx_model >>

\* line 145
OpenTrees == Open("open_trees", TreesFile, "dump_trees")
\* line 146
DumpTrees == Dump("dump_trees", TreesFile, trees_data, << >>, "completed")

\* line 148, and the return to the main block
Completed ==
    /\ pc = "completed"
    /\ stdout' = stdout \o << "completed" >>
    /\ pc' = "next_steps"
    /\ UNCHANGED << run, at_start, uncaught, steps, rng, results >>
    /\ UNCHANGED << disk, locals, pure >>

\* lines 156-159
NextSteps ==
    /\ pc = "next_steps"
    /\ stdout' = stdout \o << "next_steps" >>
    /\ pc' = "done"
    /\ UNCHANGED << run, at_start, uncaught, steps, rng, results >>
    /\ UNCHANGED << disk, locals, pure >>

\* a step of the try body raises an Exception: control goes to line 160
Fail ==
    /\ pc \in TryBody
    /\ pc' = "except"
    /\ UNCHANGED << run, at_start, stdout, uncaught, steps, rng, results >>
    /\ UNCHANGED << disk, locals, pure >>

\* the handler, removing the files the run wrote
Except_cleanup ==
    /\ pc = "except"
    /\ stdout' = stdout \o << "error", "hint" >>
    /\ files' = [f \in Files |-> IF files[f].run = run THEN Absent ELSE files[f]]
    /\ pc' = "done"
    /\ UNCHANGED << run, dirs, at_start, uncaught, steps, rng, results >>
    /\ UNCHANGED << locals, pure >>

\* the handler, with the next-steps text printed after it
Except_then_next_steps ==
    /\ pc = "except"
    /\ stdout' = stdout \o << "error", "hint", "next_steps" >>
    /\ pc' = "done"
    /\ UNCHANGED << run, at_start, uncaught, steps, rng, results >>
    /\ UNCHANGED << disk, locals, pure >>

\* lines 160-163
Except ==
    /\ pc = "except"
    /\ stdout' = stdout \o << "error", "hint" >>
    /\ pc' = "done"
    /\ UNCHANGED << run, at_start, uncaught, steps, rng, results >>
    /\ UNCHANGED << disk, locals, pure >>

\* the script is run again: a new process over the same working directory
Restart ==
    /\ pc \in {"done", "crashed"}
    /\ run < MaxRuns
    /\ run' = run + 1
    /\ pc' = "import"
    /\ rng' \in FreshRng
    /\ at_start' = [dirs |-> dirs, rng |-> rng', files |-> files]
    /\ stdout' = << >>
    /\ uncaught' = FALSE
    /\ steps' = << >>
    /\ X' = << >> /\ y' = << >> /\ n_test' = 0 /\ n_train' = 0 /\ test_idx' = {}
    /\ model' = None /\ accuracy' = 0
    /\ importance_dict' = << >> /\ onnx_model' = << >> /\ trees_data' = << >>
    /\ UNCHANGED << results, disk, pure >>

Next ==
    \/ Import \/ MkdirOnnx \/ MkdirModelData \/ Crash \/ Main
    \/ Generate \/ Split \/ Fit \/ Evaluate \/ Importance
    \/ OpenImportance \/ DumpImportance \/ Convert \/ OpenOnnx \/ WriteOnnx
    \/ ExtractTrees \/ OpenTrees \/ DumpTrees \/ Completed \/ NextSteps
    \/ Fail \/ Except

Spec == Init /\ [][Next]_vars

\* runs in which no step raises, one after the other
NextRuns ==
    \/ Import \/ MkdirOnnx \/ MkdirModelData \/ Main
    \/ Generate \/ Split \/ Fit \/ Evaluate \/ Importance
    \/ OpenImportance \/ DumpImportance \/ Convert \/ OpenOnnx \/ WriteOnnx
    \/ ExtractTrees \/ OpenTrees \/ DumpTrees \/ Completed \/ NextSteps
    \/ Restart

SpecRuns == Init /\ [][NextRuns]_vars

----------------------------------------------------------------------------
(* generate_synthetic_data and train_test_split as functions of their inputs *)

Idle ==
    /\ run = 1
    /\ dirs = [d \in Dirs |-> "dir"]
    /\ files = [f \in Files |-> Absent]
    /\ stdout = << >>
    /\ uncaught = FALSE
    /\ steps = << >>
    /\ results = << >>

InitGen ==
    /\ pc = "call"
    /\ call \in Calls
    /\ rng \in RngStates
    /\ at_start = [dirs |-> [d \in Dirs |-> "dir"], rng |-> rng,
                   files |-> [f \in Files |-> Absent]]
    /\ Idle
    /\ NoLocals
    /\ sample = None /\ score = FZero /\ label = 0

\* generate_synthetic_data(), generate_synthetic_data(n)
GenCall ==
    /\ pc = "call"
    /\ LET r == generate_synthetic_data(rng, call)
       IN  /\ X' = r.df
           /\ y' = r.y
           /\ rng' = r.rng
    /\ pc' = "called"
    /\ UNCHANGED << run, at_start, stdout, uncaught, steps, results, disk, pure >>
    /\ UNCHANGED << n_test, n_train, test_idx, model, accuracy,
                    importance_dict, onnx_model, trees_data >>

\* train_test_split of the table, test_size=0.2
SplitCall ==
    /\ pc = "called"
    /\ ~split_fails(Len(X))
    /\ n_test' = test_size_of(Len(X))
    /\ n_train' = Len(X) - test_size_of(Len(X))
    /\ test_idx' = test_indices(Len(X), SplitRandomState)
    /\ pc' = "split_done"
    /\ UNCHANGED << run, at_start, stdout, uncaught, steps, rng, results, disk, pure >>
    /\ UNCHANGED << X, y, model, accuracy, importance_dict, onnx_model, trees_data >>

\* no row is left to train on: train_test_split raises ValueError
SplitError ==
    /\ pc = "called"
    /\ split_fails(Len(X))
    /\ pc' = "split_error"
    /\ UNCHANGED << run, at_start, stdout, uncaught, steps, rng, results >>
    /\ UNCHANGED << disk, locals, pure >>

NextGen == GenCall \/ SplitCall \/ SplitError

SpecGen == InitGen /\ [][NextGen]_vars

----------------------------------------------------------------------------
(* The labelling rule as a function of one sample *)

InitLabel ==
    /\ pc = "sample"
    /\ sample \in Samples
    /\ score = FZero /\ label = 0
    /\ call = NoCount
    /\ rng = [key |-> Seed, ctr |-> 0]
    /\ at_start = [dirs |-> [d \in Dirs |-> "dir"], rng |-> rng,
                   files |-> [f \in Files |-> Absent]]
    /\ Idle
    /\ NoLocals

\* lines 55-65 on one row
ComputeLabel ==
    /\ pc = "sample"
    /\ score' = distraction_score(sample)
    /\ label' = label_of(distraction_score(sample))
    /\ pc' = "labelled"
    /\ UNCHANGED << run, at_start, stdout, uncaught, steps, rng, results >>
    /\ UNCHANGED << disk, locals, call, sample >>

NextLabel == ComputeLabel

SpecLabel == InitLabel /\ [][NextLabel]_vars

----------------------------------------------------------------------------
(* Properties *)

Printed == Range(stdout)
Done == Range(steps)
OpenStep(f) == IF f = ImportanceFile THEN "open_importance"
               ELSE IF f = OnnxFile THEN "open_onnx" ELSE "open_trees"
DumpStep(f) == IF f = ImportanceFile THEN "dump_importance"
               ELSE IF f = OnnxFile THEN "write_onnx" ELSE "dump_trees"
\* what the run holds in memory for file f
Payload(f) == IF f = ImportanceFile THEN importance_dict
              ELSE IF f = OnnxFile THEN onnx_model ELSE trees_data
WrittenByRun(f) == files[f].kind = "complete" /\ files[f].run = run
B2N(b) == IF b THEN 1 ELSE 0

\* the weighted sum of the six indicator conditions, in hundredths
ExactScore(s) ==
      30 * B2N(s.timeSpent > 600) + 20 * B2N(s.scrollCount > 50)
    + 15 * B2N(s.scrollDepth > 80) + 10 * B2N(s.clickCount < 2)
    + 15 * B2N(s.tabSwitches > 5) + 10 * B2N(s.videoWatchTime > 300)

\* C1: the label of a sample is 1 exactly when the weighted sum of its six
\* indicator conditions is strictly greater than 0.4, and 0 otherwise (so 0
\* with no condition true, 1 with all true, 0 with a sum of exactly 0.4).
C1_LabelRule ==
    pc = "labelled" =>
        /\ label = (IF ExactScore(sample) > 40 THEN 1 ELSE 0)
        /\ (ExactScore(sample) = 0 => label = 0)
        /\ (ExactScore(sample) = 100 => label = 1)
        /\ (ExactScore(sample) = 40 => label = 0)

\* a labelled sample whose conditions sum to exactly 0.4
C1_Witness ==
    pc = "labelled" /\ ExactScore(sample) = 40 /\ label = 0

\* C2: once train_and_export_model has returned without raising, the three
\* output files exist, written and non-empty; the importance JSON has
\* exactly the six feature names as keys; the trees JSON has five entries.
C2_OutputsAfterSuccess ==
    (pc \in {"next_steps", "done"} /\ "completed" \in Printed) =>
        /\ \A f \in Files : WrittenByRun(f) /\ Len(files[f].payload) > 0
        /\ Len(files[ImportanceFile].payload) = 6
        /\ Keys(files[ImportanceFile].payload) = Range(Features)
        /\ Cardinality(Keys(files[ImportanceFile].payload)) = 6
        /\ Len(files[TreesFile].payload) = 5

\* a run that succeeded over stale output files
C2_Witness ==
    /\ pc = "done" /\ "next_steps" \in Printed
    /\ \A f \in Files : at_start.files[f] = Stale

\* C3: every failure of a script run is caught by the top-level handler;
\* none leaves the script uncaught.
C3_AllFailuresCaught ==
    /\ uncaught = FALSE
    /\ (pc = "crashed" => {"error", "hint"} \subseteq Printed)

\* C4: the steps of a run are completed in the pipeline's order with none
\* skipped or repeated; the ONNX file is not written before the importance
\* file is, nor the trees file before the ONNX file.
C4_StrictSequence ==
    /\ steps = Prefix(Pipeline, Len(steps))
    /\ (files[OnnxFile].run = run => WrittenByRun(ImportanceFile))
    /\ (files[TreesFile].run = run => WrittenByRun(OnnxFile))

\* a run that completed every step
C4_Witness == steps = Pipeline /\ pc = "completed"

\* C5: any two runs produce the same feature table, labels and accuracy,
\* whatever state the global generator was in when each started.
C5_Deterministic ==
    \A r1, r2 \in DOMAIN results :
        /\ results[r1].X = results[r2].X
        /\ results[r1].y = results[r2].y
        /\ results[r1].accuracy = results[r2].accuracy

\* two evaluated runs that started from different generator states
C5_Witness ==
    \E r1, r2 \in DOMAIN results :
        results[r1].rng_before # results[r2].rng_before

\* C6 as stated: called without a sample count, generate_synthetic_data
\* produces 2000 samples.
C6_Default2000 ==
    (pc = "called" /\ ~call.given) => Len(X) = 2000 /\ Len(y) = 2000

\* C6 as amended: called without a sample count, generate_synthetic_data
\* produces 1000 samples; called as the pipeline calls it, 2000.
C6_Default1000 ==
    /\ (pc = "called" /\ ~call.given) => Len(X) = 1000 /\ Len(y) = 1000
    /\ (pc = "called" /\ call = Count(PipelineNSamples)) =>
            Len(X) = 2000 /\ Len(y) = 2000

\* a call without a sample count has returned
C6_Witness == pc = "called" /\ ~call.given /\ Len(X) = 1000

\* C7: the test set has round(0.2 * n) rows within one, train and test
\* sizes sum to n, and 2000 samples split into 400 and 1600.
C7_SplitProportion ==
    pc = "split_done" =>
        /\ Abs(n_test - RoundFifth(Len(X))) <= 1
        /\ n_test + n_train = Len(X)
        /\ Cardinality(test_idx) = n_test
        /\ (Len(X) = 2000 => n_test = 400 /\ n_train = 1600)

\* the split of the pipeline's 2000 samples
C7_Witness == pc = "split_done" /\ Len(X) = 2000 /\ n_test = 400

\* C8: after a step has failed, the files the run wrote in full are as
\* written, the files of later steps are as the run found them, and no step
\* has run twice.
C8_NoCleanup ==
    (pc = "except" \/ "error" \in Printed) =>
        /\ \A f \in Files :
              /\ DumpStep(f) \in Done => files[f] = Written(run, Payload(f))
              /\ OpenStep(f) \notin Done => files[f] = at_start.files[f]
        /\ Cardinality(Done) = Len(steps)

\* the ONNX conversion failed after the importance file was written
C8_Witness ==
    /\ pc = "done" /\ "error" \in Printed
    /\ steps = Prefix(Pipeline, 7)
    /\ files[ImportanceFile] = Written(run, importance_dict)
    /\ files[OnnxFile] = Absent /\ files[TreesFile] = Absent

\* C9: whenever an output file is about to be opened or written, its
\* parent directory exists; makedirs on an absent or existing directory can
\* succeed.
C9_DirsExist ==
    /\ \A f \in Files :
          pc \in {OpenStep(f), DumpStep(f)} => dirs[Parent(f)] = "dir"
    /\ (pc = "mkdir_onnx" /\ dirs["onnx"] \in {"absent", "dir"}) => ENABLED MkdirOnnx
    /\ (pc = "mkdir_model_data" /\ dirs["model_data"] \in {"absent", "dir"})
            => ENABLED MkdirModelData

\* the last file is about to be opened in a run that found no directory
C9_Witness ==
    pc = "open_trees" /\ \A d \in Dirs : at_start.dirs[d] = "absent"

\* C10: a run that reaches the main block reports exactly one outcome: the
\* success text, only after all three files are written, or the error text
\* with the hint; never the success text after a failed step nor the error
\* text after a pipeline that completed.
C10_OneOutcome ==
    LET success == {"completed", "next_steps"} \subseteq Printed
        failure == {"error", "hint"} \subseteq Printed
    IN  /\ ~("error" \in Printed /\ {"completed", "next_steps"} \cap Printed # {})
        /\ ("next_steps" \in Printed => "completed" \in Printed)
        /\ ("completed" \in Printed =>
                steps = Pipeline /\ \A f \in Files : WrittenByRun(f))
        /\ ("error" \in Printed => steps # Pipeline /\ "hint" \in Printed)
        /\ (pc = "done" => (success /\ ~failure) \/ (failure /\ ~success))

\* a run whose last step failed has reported the error
C10_Witness ==
    pc = "done" /\ "error" \in Printed /\ steps = Prefix(Pipeline, 12)

====
